---- MODULE Spec2Model ----
(***************************************************************************)
(* Model of the SINMAM heart-rate dashboard (src/src/App.tsx): the React   *)
(* state of App, the fetch cycle started by fetchData, the two effects     *)
(* (initial load, 15 s auto-refresh) and the risk classification.          *)
(***************************************************************************)
EXTENDS Integers, Sequences, FiniteSets, TLC

\* ------------------------------------------------------------------ bounds
\* Largest number of cycles (fetchData invocations) followed in one behaviour.
MaxCycles == 2
\* Pulses handed to getRiskLevel range over 0..MaxPulse.
MaxPulse == 250

\* --------------------------------------------------------------- constants
\* setInterval delay of the auto-refresh effect.
RefreshMs == 15000
\* Thresholds of getRiskLevel.
HighAbove == 100
LowBelow == 60

\* ------------------------------------------------------------------ values
Null == "<null>"

\* useState<HeartRateStats> initial value (lastUpdated: the construction time).
InitialStats ==
    [last5Minutes |-> 0, last15Minutes |-> 0, last30Minutes |-> 0,
     current |-> 0, lastUpdated |-> "t0"]

\* Bodies the stats endpoint may answer with.
StatsBodies ==
    { [last5Minutes |-> 120, last15Minutes |-> 98, last30Minutes |-> 85,
       current |-> 150, lastUpdated |-> "14:30:25"],
      [last5Minutes |-> 58, last15Minutes |-> 61, last30Minutes |-> 70,
       current |-> 55, lastUpdated |-> "14:30:40"] }

R1 == [id |-> 1, hour |-> "14:30", pulse |-> 150, isRisky |-> TRUE,
       timestamp |-> "2025-01-11T14:30:00Z"]
R2 == [id |-> 2, hour |-> "14:15", pulse |-> 55, isRisky |-> FALSE,
       timestamp |-> "2025-01-11T14:15:00Z"]

\* Arrays the readings endpoint may answer with (the order is the server's).
ReadingsBodies == { <<R1, R2>>, <<R2, R1>> }

\* Values a rejected fetch() / response.json() promise carries.
NetworkError == [isError |-> TRUE, message |-> "Failed to fetch"]
SyntaxError == [isError |-> TRUE, message |-> "Unexpected token"]

\* new Error(msg)
Error(msg) == [isError |-> TRUE, message |-> msg]

StatsHttpMessage == "Error al obtener estadisticas"
ReadingsHttpMessage == "Error al obtener lecturas"

\* A cycle record holds the position of its two fetch tasks (sRes, rRes) and,
\* as history, what started it (by), the data each task committed (sData,
\* rData: <<>> or <<body>>), the state slices when it started (preStats,
\* preReadings) and whether another cycle was in flight at any time between
\* its start and its completion (overlap).
\* Position / outcome of one fetch task of a cycle.
\*   "fetch": awaiting fetch(url)      "json": awaiting response.json()
\*   "ok": data committed   "http" | "net" | "parse": caught a failure
Pending == {"fetch", "json"}
Failed == {"http", "net", "parse"}

VARIABLES
    stats,      \* useState stats
    readings,   \* useState readings
    loading,    \* useState loading
    error,      \* useState error (Null or a message)
    mounted,    \* "idle" (constructed) | "active" | "unmounted"
    interval,   \* NoTimer or the timer created by setInterval
    cycles,     \* the fetchData invocations, in start order
    pulse,      \* argument of the classification under test
    risk,       \* its result ("none" before the call)
    view        \* the rendered labels (NoView before the content is rendered)

vars == <<stats, readings, loading, error, mounted, interval, cycles, pulse, risk, view>>

NoTimer == [set |-> FALSE, delay |-> 0]

\* ------------------------------------------------------ risk classification
\* Variant: the upper threshold taken inclusively.
getRiskLevelGE(p) ==
    IF p >= HighAbove THEN "high"
    ELSE IF p < LowBelow THEN "low"
    ELSE "normal"

getRiskLevel(p) ==
    IF p > HighAbove THEN "high"
    ELSE IF p < LowBelow THEN "low"
    ELSE "normal"

\* ---------------------------------------------------------------- labels
NoView == [current |-> "", rows |-> <<>>]

\* {stats.current > 100 ? 'Elevado' : stats.current < 60 ? 'Bajo' : 'Normal'}
currentLabel(current) ==
    IF current > 100 THEN "Elevado"
    ELSE IF current < 60 THEN "Bajo"
    ELSE "Normal"

\* Variant: the server's flag decides the category.
estadoLabelFromFlag(reading) ==
    IF reading.isRisky \/ reading.pulse > 100 THEN "Elevado"
    ELSE IF reading.pulse < 60 THEN "Bajo"
    ELSE "Normal"

\* {reading.pulse > 100 ? 'Elevado' : reading.pulse < 60 ? 'Bajo' : 'Normal'}
estadoLabel(reading) ==
    IF reading.pulse > 100 THEN "Elevado"
    ELSE IF reading.pulse < 60 THEN "Bajo"
    ELSE "Normal"

\* {reading.isRisky ? 'Si' : 'No'} (the source writes 'Si' with an accent)
riesgosoText(reading) == IF reading.isRisky THEN "Si" ELSE "No"

\* ---------------------------------------------------------- cycle records
CycleIds == 1..Len(cycles)

Settled(c) == c.sRes \notin Pending /\ c.rRes \notin Pending
InFlight(c) == ~Settled(c)
AnyInFlight == \E i \in CycleIds : InFlight(cycles[i])

\* Variant: the catch block reports nothing.
catchMessageNull(err) == Null

\* Variant: the message of the thrown Error is not used.
catchMessageGeneric(err) == "Error desconocido"

\* catch (err) { setError(err instanceof Error ? err.message : 'Error desconocido') }
catchMessage(err) == IF err.isError THEN err.message ELSE "Error desconocido"

\* Variant: the parsed body is dropped.
setStatsKeep(old, data) == old

\* setStats(data): the snapshot is replaced by the parsed body.
setStats(old, data) == data

\* Variants: the array appended to the list; the array re-ordered.
setReadingsAppend(old, data) == old \o data
setReadingsReversed(old, data) == [i \in 1..Len(data) |-> data[Len(data) + 1 - i]]

\* setReadings(data): the list is replaced by the parsed array.
setReadings(old, data) == data

\* A new cycle record, and the mark on the cycles it overlaps.
StartCycle(by) ==
    Append([i \in CycleIds |->
              IF InFlight(cycles[i]) THEN [cycles[i] EXCEPT !.overlap = TRUE]
              ELSE cycles[i]],
           [by |-> by, sRes |-> "fetch", rRes |-> "fetch",
            sData |-> <<>>, rData |-> <<>>,
            preStats |-> stats, preReadings |-> readings,
            overlap |-> AnyInFlight])

\* Variant: the start of a cycle resets the data.
fetchDataBlank(by) ==
    /\ Len(cycles) < MaxCycles
    /\ loading' = TRUE
    /\ error' = Null
    /\ cycles' = StartCycle(by)
    /\ stats' = InitialStats
    /\ readings' = <<>>

\* Variant: a cycle is not started while another is in flight.
fetchDataSkipIfBusy(by) ==
    /\ ~AnyInFlight
    /\ Len(cycles) < MaxCycles
    /\ loading' = TRUE
    /\ error' = Null
    /\ cycles' = StartCycle(by)
    /\ UNCHANGED <<stats, readings>>

\* Variant: the start of a cycle does not set loading.
fetchDataNoLoading(by) ==
    /\ Len(cycles) < MaxCycles
    /\ loading' = loading
    /\ error' = Null
    /\ cycles' = StartCycle(by)
    /\ UNCHANGED <<stats, readings>>

\* Variant: the start of a cycle leaves the previous error in place.
fetchDataKeepsError(by) ==
    /\ Len(cycles) < MaxCycles
    /\ loading' = TRUE
    /\ error' = error
    /\ cycles' = StartCycle(by)
    /\ UNCHANGED <<stats, readings>>

\* fetchData, up to its await: setLoading(true); setError(null); both fetches
\* are issued (each runs to its first await).
fetchData(by) ==
    /\ Len(cycles) < MaxCycles
    /\ loading' = TRUE
    /\ error' = Null
    /\ cycles' = StartCycle(by)
    /\ UNCHANGED <<stats, readings>>

\* Variant: setLoading(false) placed in the try block, after a clean join.
finallyLoadingOnSuccess(c) ==
    loading' = IF Settled(c) /\ c.sRes = "ok" /\ c.rRes = "ok" THEN FALSE ELSE loading

\* Variant: loading is cleared when the first of the two fetches settles.
finallyLoadingEarly(c) == loading' = FALSE

\* fetchData after Promise.all: finally { setLoading(false) }.  It runs in the
\* same turn as the settling of the second of the two fetches.
finallyLoading(c) == loading' = IF Settled(c) THEN FALSE ELSE loading

\* ------------------------------------------------------------------ effects
\* Variant: the initial-load effect is missing.
MountNoInitialLoad ==
    /\ mounted = "idle"
    /\ mounted' = "active"
    /\ interval' = [set |-> TRUE, delay |-> RefreshMs]
    /\ UNCHANGED <<stats, readings, loading, error, cycles, pulse, risk, view>>

\* useEffect(() => { fetchData() }, []) and
\* useEffect(() => { const interval = setInterval(...,15000); ... }, [])
Mount ==
    /\ mounted = "idle"
    /\ mounted' = "active"
    /\ fetchData("mount")
    /\ interval' = [set |-> TRUE, delay |-> RefreshMs]
    /\ UNCHANGED <<pulse, risk, view>>

\* Variant: polling stops while an error is shown.
TickUnlessError ==
    /\ interval.set
    /\ error = Null
    /\ fetchData("tick")
    /\ UNCHANGED <<mounted, interval, pulse, risk, view>>

\* The interval callback: () => { fetchData() }
Tick ==
    /\ interval.set
    /\ fetchData("tick")
    /\ UNCHANGED <<mounted, interval, pulse, risk, view>>

\* Variant: the retry cancels the timer.
RetryRestartsTimer ==
    /\ mounted = "active"
    /\ error # Null
    /\ fetchData("retry")
    /\ interval' = NoTimer
    /\ UNCHANGED <<mounted, pulse, risk, view>>

\* onClick={fetchData} of the Reintentar button, rendered while error is set.
Retry ==
    /\ mounted = "active"
    /\ error # Null
    /\ fetchData("retry")
    /\ UNCHANGED <<mounted, interval, pulse, risk, view>>

\* Cleanup of the interval effect: clearInterval(interval).
\* Variant: the cleanup does not clear the timer.
cleanupLeavesTimer == interval' = interval
cleanup == interval' = NoTimer

Unmount ==
    /\ mounted = "active"
    /\ mounted' = "unmounted"
    /\ cleanup
    /\ UNCHANGED <<stats, readings, loading, error, cycles, pulse, risk, view>>

\* ----------------------------------------------------------- fetch: stats
\* Neither fetch function nor fetchData tests whether the component is still
\* mounted: a fetch pending at unmount settles as any other and calls the
\* setters.
\* The task of cycle i settles with outcome res (and data, when "ok").
StatsSettles(i, res, data) ==
    /\ cycles' = [cycles EXCEPT ![i].sRes = res, ![i].sData = data]
    /\ finallyLoading(cycles'[i])

\* await fetch(.../stats) answers: ok, a non-ok status, or a rejection.
StatsResponse(i) ==
    /\ i \in CycleIds
    /\ cycles[i].sRes = "fetch"
    /\ \/ /\ cycles' = [cycles EXCEPT ![i].sRes = "json"]
          /\ UNCHANGED <<error, loading>>
       \/ /\ error' = catchMessage(Error(StatsHttpMessage))
          /\ StatsSettles(i, "http", <<>>)
       \/ /\ error' = catchMessage(NetworkError)
          /\ StatsSettles(i, "net", <<>>)
    /\ UNCHANGED <<stats, readings, mounted, interval, pulse, risk, view>>

\* await response.json() answers: the parsed body, or a rejection.
StatsBody(i) ==
    /\ i \in CycleIds
    /\ cycles[i].sRes = "json"
    /\ \/ \E data \in StatsBodies :
            /\ stats' = setStats(stats, data)
            /\ StatsSettles(i, "ok", <<data>>)
            /\ UNCHANGED error
       \/ /\ error' = catchMessage(SyntaxError)
          /\ StatsSettles(i, "parse", <<>>)
          /\ UNCHANGED stats
    /\ UNCHANGED <<readings, mounted, interval, pulse, risk, view>>

\* -------------------------------------------------------- fetch: readings
ReadingsSettles(i, res, data) ==
    /\ cycles' = [cycles EXCEPT ![i].rRes = res, ![i].rData = data]
    /\ finallyLoading(cycles'[i])

ReadingsResponse(i) ==
    /\ i \in CycleIds
    /\ cycles[i].rRes = "fetch"
    /\ \/ /\ cycles' = [cycles EXCEPT ![i].rRes = "json"]
          /\ UNCHANGED <<error, loading>>
       \/ /\ error' = catchMessage(Error(ReadingsHttpMessage))
          /\ ReadingsSettles(i, "http", <<>>)
       \/ /\ error' = catchMessage(NetworkError)
          /\ ReadingsSettles(i, "net", <<>>)
    /\ UNCHANGED <<stats, readings, mounted, interval, pulse, risk, view>>

ReadingsBody(i) ==
    /\ i \in CycleIds
    /\ cycles[i].rRes = "json"
    /\ \/ \E data \in ReadingsBodies :
            /\ readings' = setReadings(readings, data)
            /\ ReadingsSettles(i, "ok", <<data>>)
            /\ UNCHANGED error
       \/ /\ error' = catchMessage(SyntaxError)
          /\ ReadingsSettles(i, "parse", <<>>)
          /\ UNCHANGED readings
    /\ UNCHANGED <<stats, mounted, interval, pulse, risk, view>>

\* ------------------------------------------------------------ specification
\* Variant: useState(false) for loading.
InitNotLoading ==
    /\ stats = InitialStats
    /\ readings = <<>>
    /\ loading = FALSE
    /\ error = Null
    /\ mounted = "idle"
    /\ interval = NoTimer
    /\ cycles = <<>>
    /\ pulse = 0
    /\ risk = "none"
    /\ view = NoView

Init ==
    /\ stats = InitialStats
    /\ readings = <<>>
    /\ loading = TRUE
    /\ error = Null
    /\ mounted = "idle"
    /\ interval = NoTimer
    /\ cycles = <<>>
    /\ pulse = 0
    /\ risk = "none"
    /\ view = NoView

Next ==
    \/ Mount
    \/ Tick
    \/ Retry
    \/ Unmount
    \/ \E i \in 1..MaxCycles : StatsResponse(i)
    \/ \E i \in 1..MaxCycles : StatsBody(i)
    \/ \E i \in 1..MaxCycles : ReadingsResponse(i)
    \/ \E i \in 1..MaxCycles : ReadingsBody(i)

Spec == Init /\ [][Next]_vars

\* The classification applied to every pulse of the range.
InitRisk ==
    /\ stats = InitialStats
    /\ readings = <<>>
    /\ loading = TRUE
    /\ error = Null
    /\ mounted = "idle"
    /\ interval = NoTimer
    /\ cycles = <<>>
    /\ pulse \in 0..MaxPulse
    /\ risk = "none"
    /\ view = NoView

Classify ==
    /\ risk = "none"
    /\ risk' = getRiskLevel(pulse)
    /\ UNCHANGED <<stats, readings, loading, error, mounted, interval, cycles, pulse, view>>

NextRisk == Classify

SpecRisk == InitRisk /\ [][NextRisk]_vars

\* The labels rendered for a current pulse and a table row, for every pulse of
\* the range and both values of isRisky.
InitView ==
    /\ pulse \in 0..MaxPulse
    /\ \E b \in BOOLEAN :
          readings = <<[R1 EXCEPT !.pulse = pulse, !.isRisky = b]>>
    /\ stats = [InitialStats EXCEPT !.current = pulse]
    /\ loading = FALSE
    /\ error = Null
    /\ mounted = "active"
    /\ interval = [set |-> TRUE, delay |-> RefreshMs]
    /\ cycles = <<>>
    /\ risk = "none"
    /\ view = NoView

\* {!loading && ( ... )}: the hero label and one row per reading.
Render ==
    /\ ~loading
    /\ view = NoView
    /\ view' = [current |-> currentLabel(stats.current),
                rows |-> [i \in 1..Len(readings) |->
                            [estado |-> estadoLabel(readings[i]),
                             riesgoso |-> riesgosoText(readings[i])]]]
    /\ UNCHANGED <<stats, readings, loading, error, mounted, interval, cycles,
                   pulse, risk>>

NextView == Render

SpecView == InitView /\ [][NextView]_vars

\* Every fetch() and response.json() promise eventually settles.
SpecSettle ==
    /\ Spec
    /\ \A i \in 1..MaxCycles :
          /\ WF_vars(StatsResponse(i)) /\ WF_vars(StatsBody(i))
          /\ WF_vars(ReadingsResponse(i)) /\ WF_vars(ReadingsBody(i))

\* The timer created by setInterval keeps firing for as long as it is set.
SpecLive == Spec /\ WF_vars(Tick)

\* ==================================================================== claims
BothOk(c) == c.sRes = "ok" /\ c.rRes = "ok"
BothFailed(c) == c.sRes \in Failed /\ c.rRes \in Failed
OnlyStatsFailed(c) == c.sRes \in Failed /\ c.rRes = "ok"
OnlyReadingsFailed(c) == c.sRes = "ok" /\ c.rRes \in Failed

\* Cycle i completes in this step: its second fetch settles and the finally
\* block of fetchData runs.
Completes(i) == InFlight(cycles[i]) /\ Settled(cycles'[i])

\* C1: getRiskLevel(p) is 'high' iff p > 100, 'low' iff p < 60, 'normal' iff
\* 60 <= p <= 100, and always one of the three labels (59 -> low, 60 -> normal,
\* 100 -> normal, 101 -> high).
C1_RiskLevel ==
    risk # "none" =>
        /\ risk \in {"high", "low", "normal"}
        /\ (risk = "high") <=> (pulse > 100)
        /\ (risk = "low") <=> (pulse < 60)
        /\ (risk = "normal") <=> (60 <= pulse /\ pulse <= 100)
        /\ (pulse = 59 => risk = "low")
        /\ (pulse = 60 => risk = "normal")
        /\ (pulse = 100 => risk = "normal")
        /\ (pulse = 101 => risk = "high")

C1_Witness == pulse = 100 /\ risk = "normal"

\* C2 as stated: whenever a cycle whose two fetches both succeeded completes,
\* stats is that cycle's stats body and readings is that cycle's array, in the
\* order received.
C2_AnyCycle ==
    [][\A i \in CycleIds :
         (Completes(i) /\ BothOk(cycles'[i])) =>
            /\ stats' = cycles'[i].sData[1]
            /\ readings' = cycles'[i].rData[1]]_vars

\* C2 amended: the same, for a cycle that overlapped no other cycle.
C2_CommitExact ==
    [][\A i \in CycleIds :
         (Completes(i) /\ BothOk(cycles'[i]) /\ ~cycles'[i].overlap) =>
            /\ stats' = cycles'[i].sData[1]
            /\ readings' = cycles'[i].rData[1]]_vars

C2_Witness ==
    \E i \in CycleIds :
        /\ i = Len(cycles)
        /\ BothOk(cycles[i]) /\ ~cycles[i].overlap
        /\ stats = cycles[i].sData[1]
        /\ readings = cycles[i].rData[1]
        /\ readings = <<R2, R1>>
        /\ ~loading

\* What C3 says of cycle i at its completion: the successful slice holds the
\* response, the failed one its value from before the cycle, error a message.
OneFailedOutcome(i) ==
    /\ OnlyStatsFailed(cycles'[i]) =>
          /\ readings' = cycles'[i].rData[1]
          /\ stats' = cycles'[i].preStats
    /\ OnlyReadingsFailed(cycles'[i]) =>
          /\ stats' = cycles'[i].sData[1]
          /\ readings' = cycles'[i].preReadings
    /\ error' # Null /\ error' # ""

ExactlyOneFailed(c) == OnlyStatsFailed(c) \/ OnlyReadingsFailed(c)

\* C3 as stated: in a cycle where exactly one fetch fails, at completion the
\* successful slice is replaced, the failed slice is as before the cycle and
\* error is a non-empty message.
C3_AnyCycle ==
    [][\A i \in CycleIds :
         (Completes(i) /\ ExactlyOneFailed(cycles'[i])) => OneFailedOutcome(i)]_vars

\* C3 amended: the same, for a cycle that overlapped no other cycle.
C3_PartialFailure ==
    [][\A i \in CycleIds :
         (Completes(i) /\ ExactlyOneFailed(cycles'[i]) /\ ~cycles'[i].overlap)
            => OneFailedOutcome(i)]_vars

C3_Witness ==
    \E i \in CycleIds :
        /\ i = Len(cycles) /\ i > 1
        /\ OnlyStatsFailed(cycles[i]) /\ ~cycles[i].overlap
        /\ readings = cycles[i].rData[1]
        /\ readings # cycles[i].preReadings
        /\ stats = cycles[i].preStats /\ stats # InitialStats
        /\ error = StatsHttpMessage
        /\ ~loading

BothFailedOutcome(i) ==
    /\ error' # Null
    /\ stats' = cycles'[i].preStats
    /\ readings' = cycles'[i].preReadings

\* C4 as stated: in a cycle where both fetches fail, at completion error is set
\* and stats and readings hold the values they had before the cycle started.
C4_AnyCycle ==
    [][\A i \in CycleIds :
         (Completes(i) /\ BothFailed(cycles'[i])) => BothFailedOutcome(i)]_vars

\* C4 amended: the same, for a cycle that overlapped no other cycle.
C4_TotalFailure ==
    [][\A i \in CycleIds :
         (Completes(i) /\ BothFailed(cycles'[i]) /\ ~cycles'[i].overlap)
            => BothFailedOutcome(i)]_vars

C4_Witness ==
    \E i \in CycleIds :
        /\ i = Len(cycles) /\ i > 1
        /\ BothFailed(cycles[i]) /\ ~cycles[i].overlap
        /\ stats = cycles[i].preStats /\ stats # InitialStats
        /\ readings = cycles[i].preReadings /\ readings # <<>>
        /\ error # Null
        /\ ~loading

\* Cycles i-1 and i ran in succession (neither overlapped any cycle), both
\* succeeded, and the responses of the second equal those of the first.
Repeated(c, d) ==
    /\ ~c.overlap /\ ~d.overlap
    /\ BothOk(c) /\ BothOk(d)
    /\ c.sData = d.sData /\ c.rData = d.rData

\* C5: running the cycle twice in succession with identical successful
\* responses leaves stats and readings as they were after the first run
\* (replace, not append: same length, same contents).
C5_Idempotent ==
    [][\A i \in CycleIds :
         (i > 1 /\ Completes(i) /\ Repeated(cycles'[i - 1], cycles'[i])) =>
            /\ stats' = cycles'[i].preStats
            /\ readings' = cycles'[i].preReadings
            /\ Len(readings') = Len(cycles'[i].rData[1])]_vars

C5_Witness ==
    /\ Len(cycles) = 2
    /\ Repeated(cycles[1], cycles[2])
    /\ stats = cycles[1].sData[1]
    /\ readings = cycles[1].rData[1]
    /\ readings = cycles[2].preReadings
    /\ ~loading

\* C6: once the component is unmounted, a fetch that settles changes none of
\* stats, readings, loading, error.
C6_StaleGuard ==
    [][mounted = "unmounted" => UNCHANGED <<stats, readings, loading, error>>]_vars

\* C7: after the cleanup of the interval effect the timer is gone and no
\* fetchData invocation begins.
C7_TimerCancelled ==
    /\ [](mounted = "unmounted" => ~interval.set)
    /\ [][mounted = "unmounted" => Len(cycles') = Len(cycles)]_vars

C7_Witness ==
    /\ mounted = "unmounted"
    /\ Len(cycles) = 1
    /\ Settled(cycles[1])
    /\ ~interval.set

\* The step starts one cycle, whose two fetches are issued.
StartsOneCycle ==
    /\ Len(cycles') = Len(cycles) + 1
    /\ cycles'[Len(cycles')].sRes = "fetch"
    /\ cycles'[Len(cycles')].rRes = "fetch"

\* C8: activation starts exactly one cycle, before any tick; while the
\* component is active the 15 s timer is set and each tick starts exactly one
\* cycle; only activation, a tick or a retry starts a cycle.
C8_CycleStarts ==
    /\ [](mounted # "idle" =>
            /\ Len(cycles) >= 1
            /\ cycles[1].by = "mount"
            /\ \A i \in CycleIds : i > 1 => cycles[i].by \in {"tick", "retry"})
    /\ [](mounted = "idle" => cycles = <<>> /\ ~interval.set)
    /\ [](mounted = "active" =>
            /\ interval = [set |-> TRUE, delay |-> 15000]
            /\ (Len(cycles) < MaxCycles => ENABLED Tick))
    /\ [][Mount => StartsOneCycle]_vars
    /\ [][Tick => StartsOneCycle]_vars
    /\ [][Len(cycles') # Len(cycles) => StartsOneCycle /\ (Mount \/ Tick \/ Retry)]_vars

C8_Witness ==
    /\ mounted = "active"
    /\ Len(cycles) = 2
    /\ cycles[1].by = "mount"
    /\ cycles[2].by = "tick"
    /\ InFlight(cycles[1])

\* C9: a cycle with failures leaves the timer set and ticking; while the
\* component is active another cycle, issuing both fetches, is eventually
\* started.
C9_NotFatal ==
    /\ [](mounted = "active" =>
            /\ interval.set
            /\ (Len(cycles) < MaxCycles => ENABLED Tick))
    /\ [][(\E i \in CycleIds : cycles'[i] # cycles[i]) => interval' = interval]_vars
    /\ \A k \in 1..(MaxCycles - 1) :
         (mounted = "active" /\ Len(cycles) = k /\ error # Null)
            ~> (mounted # "active"
                \/ Len(cycles) > k)

C9_Witness ==
    /\ mounted = "active"
    /\ Len(cycles) = 2
    /\ BothFailed(cycles[1])
    /\ ~cycles[1].overlap
    /\ cycles[2].by = "tick"
    /\ cycles[2].sRes = "fetch" /\ cycles[2].rRes = "fetch"

\* C10: Reintentar is offered while error is set; clicking it starts a cycle at
\* once (loading set, error cleared, both fetches issued, data untouched) and
\* leaves the timer as it was, so ticks go on.
C10_Retry ==
    /\ [](mounted = "active" /\ error # Null /\ Len(cycles) < MaxCycles
            => ENABLED Retry)
    /\ [][Retry =>
            /\ StartsOneCycle
            /\ loading' /\ error' = Null
            /\ interval' = interval /\ interval'.set
            /\ UNCHANGED <<stats, readings>>]_vars

C10_Witness ==
    /\ mounted = "active"
    /\ Len(cycles) = 2
    /\ cycles[2].by = "retry"
    /\ interval = [set |-> TRUE, delay |-> RefreshMs]
    /\ loading /\ error = Null

\* C11: the category label of a row (and of the current pulse) is 'Elevado'
\* above 100, 'Bajo' below 60, else 'Normal', whatever isRisky is; the badge
\* text is 'Si' when isRisky, else 'No', whatever the pulse is.
C11_IndependentSignals ==
    view # NoView =>
        /\ Len(view.rows) = Len(readings)
        /\ \A i \in 1..Len(readings) :
              /\ view.rows[i].estado =
                   (IF readings[i].pulse > 100 THEN "Elevado"
                    ELSE IF readings[i].pulse < 60 THEN "Bajo" ELSE "Normal")
              /\ view.rows[i].riesgoso = (IF readings[i].isRisky THEN "Si" ELSE "No")
        /\ view.current =
             (IF stats.current > 100 THEN "Elevado"
              ELSE IF stats.current < 60 THEN "Bajo" ELSE "Normal")
        /\ (stats.current = 150 => view.current = "Elevado")
        /\ (stats.current = 55 => view.current = "Bajo")

C11_Witness ==
    /\ stats.current = 55
    /\ view.current = "Bajo"
    /\ readings[1].pulse = 55 /\ readings[1].isRisky
    /\ view.rows = <<[estado |-> "Bajo", riesgoso |-> "Si"]>>

\* The stats (readings) fetch of cycle i commits its data in this step.
StatsCommits(i) == cycles[i].sRes = "json" /\ cycles'[i].sRes = "ok"
ReadingsCommits(i) == cycles[i].rRes = "json" /\ cycles'[i].rRes = "ok"

\* C12 as stated: no state shows one slice holding a cycle's data while the
\* other fetch of that cycle is still pending.
C12_JoinedCommit ==
    \A i \in CycleIds :
        /\ ~(cycles[i].sRes = "ok" /\ cycles[i].rRes \in Pending
             /\ stats = cycles[i].sData[1])
        /\ ~(cycles[i].rRes = "ok" /\ cycles[i].sRes \in Pending
             /\ readings = cycles[i].rData[1])

\* C12 amended: each fetch replaces its own slice as soon as it settles, also
\* while the other fetch of the cycle is pending; the join only gates loading,
\* which is set to false by nothing but the completion of a cycle.
C12_JoinGatesLoading ==
    /\ [][\A i \in CycleIds : StatsCommits(i) => stats' = cycles'[i].sData[1]]_vars
    /\ [][\A i \in CycleIds : ReadingsCommits(i) => readings' = cycles'[i].rData[1]]_vars
    /\ [][(loading /\ ~loading') => \E i \in CycleIds : Completes(i)]_vars

C12_Witness ==
    /\ Len(cycles) = 1
    /\ cycles[1].sRes = "ok"
    /\ cycles[1].rRes = "fetch"
    /\ stats = cycles[1].sData[1]
    /\ readings = <<>>
    /\ loading

\* The message a fetch that ended with outcome res leaves in error.
MessageOf(res, httpMessage) ==
    CASE res = "http" -> httpMessage
      [] res = "net" -> "Failed to fetch"
      [] res = "parse" -> "Unexpected token"

\* C13: when both fetches of a cycle fail, at its completion error is the one
\* message of the fetch that failed later (the one settling in the completing
\* step), whichever was issued first.
C13_LastFailureWins ==
    [][\A i \in CycleIds :
         (Completes(i) /\ BothFailed(cycles'[i])) =>
            error' = IF cycles[i].sRes \in Pending
                     THEN MessageOf(cycles'[i].sRes, "Error al obtener estadisticas")
                     ELSE MessageOf(cycles'[i].rRes, "Error al obtener lecturas")]_vars

C13_Witness ==
    /\ Len(cycles) = 1
    /\ cycles[1].sRes = "http" /\ cycles[1].rRes = "http"
    /\ error = "Error al obtener estadisticas"
    /\ ~loading

\* C14: the start of a cycle sets loading, clears error and leaves stats and
\* readings as they are.
C14_StartFrame ==
    [][Len(cycles') > Len(cycles) =>
          /\ loading' = TRUE
          /\ error' = Null
          /\ UNCHANGED <<stats, readings>>]_vars

C14_Witness ==
    /\ Len(cycles) = 2
    /\ cycles[2].by = "retry"
    /\ cycles[2].sRes = "fetch" /\ cycles[2].rRes = "fetch"
    /\ Settled(cycles[1])
    /\ loading /\ error = Null
    /\ stats = cycles[2].preStats /\ stats # InitialStats
    /\ readings = cycles[2].preReadings

\* A fetch of cycle i ends in its catch block in this step.
FailsIn(i) ==
    \/ cycles[i].sRes \in Pending /\ cycles'[i].sRes \in Failed
    \/ cycles[i].rRes \in Pending /\ cycles'[i].rRes \in Failed

\* C15: whatever the outcomes of its two fetches, a cycle sets loading to
\* false when both have settled; a failure only sets error; if every fetch
\* eventually settles, every started cycle completes.
C15_ExitsLoading ==
    /\ [][\A i \in CycleIds : Completes(i) => loading' = FALSE]_vars
    /\ [][\A i \in CycleIds : FailsIn(i) =>
            /\ error' \notin {Null, ""}
            /\ UNCHANGED <<stats, readings, mounted, interval>>]_vars
    /\ \A k \in 1..MaxCycles :
         (Len(cycles) >= k) ~> (Len(cycles) >= k /\ Settled(cycles[k]))

C15_Witness ==
    /\ Len(cycles) = 2
    /\ BothFailed(cycles[1])
    /\ OnlyReadingsFailed(cycles[2])
    /\ ~cycles[2].overlap
    /\ ~loading

\* C16 as stated: whenever loading is false a cycle has completed and stats is
\* not the initial all-zero placeholder.
C16_ReadyHasData ==
    ~loading =>
        /\ \E i \in CycleIds : Settled(cycles[i])
        /\ stats # InitialStats

\* C16 amended: whenever loading is false a cycle has completed (loading stays
\* true from construction until the first completion); stats is the placeholder
\* exactly as long as no stats fetch has succeeded.
C16_ReadyAfterFirstCycle ==
    /\ ~loading => \E i \in CycleIds : Settled(cycles[i])
    /\ (stats = InitialStats) <=> (\A i \in CycleIds : cycles[i].sRes # "ok")

C16_Witness ==
    /\ Len(cycles) = 1
    /\ cycles[1].sRes \in Failed /\ cycles[1].rRes = "ok"
    /\ ~loading
    /\ stats = InitialStats

\* C17: while a cycle is in flight a tick (and, with error set, a retry) still
\* starts a new cycle; the start leaves the pending fetches of earlier cycles
\* as they are; they can still settle and what they return is committed.
C17_NoSuppression ==
    /\ []((mounted = "active" /\ AnyInFlight /\ Len(cycles) < MaxCycles) =>
            /\ ENABLED Tick
            /\ (error # Null => ENABLED Retry))
    /\ [][Len(cycles') > Len(cycles) =>
            \A i \in CycleIds : /\ cycles'[i].sRes = cycles[i].sRes
                                /\ cycles'[i].rRes = cycles[i].rRes]_vars
    /\ [](\A i \in CycleIds :
            /\ cycles[i].sRes = "fetch" => ENABLED StatsResponse(i)
            /\ cycles[i].sRes = "json" => ENABLED StatsBody(i)
            /\ cycles[i].rRes = "fetch" => ENABLED ReadingsResponse(i)
            /\ cycles[i].rRes = "json" => ENABLED ReadingsBody(i))
    /\ [][\A i \in CycleIds :
            /\ (StatsCommits(i) /\ cycles[i].overlap) => stats' = cycles'[i].sData[1]
            /\ (ReadingsCommits(i) /\ cycles[i].overlap)
                  => readings' = cycles'[i].rData[1]]_vars

C17_Witness ==
    /\ Len(cycles) = 2
    /\ cycles[2].by = "tick"
    /\ cycles[1].overlap
    /\ cycles[2].sRes = "fetch" /\ cycles[2].rRes = "fetch"
    /\ cycles[1].sRes = "ok"
    /\ cycles[2].preStats = InitialStats
    /\ stats = cycles[1].sData[1]

\* C18 as stated: loading is true in every state in which a cycle is in flight.
C18_LoadingWhileInFlight == AnyInFlight => loading

\* C18 amended: loading is true while a cycle is in flight unless a cycle that
\* overlapped another has completed; in particular while a cycle that overlaps
\* no other is in flight.
C18_LoadingUnlessOverlap ==
    (AnyInFlight /\ ~loading) =>
        \E j \in CycleIds : Settled(cycles[j]) /\ cycles[j].overlap

C18_Witness ==
    /\ Len(cycles) = 2
    /\ InFlight(cycles[2])
    /\ Settled(cycles[1]) /\ cycles[1].overlap
    /\ ~loading

FailedIn(c) == c.sRes \in Failed \/ c.rRes \in Failed

\* C19 as stated: when no cycle is in flight, error is set iff a fetch of the
\* most recently started cycle failed.
C19_ErrorOfLatestCycle ==
    (cycles # <<>> /\ ~AnyInFlight) =>
        ((error # Null) <=> FailedIn(cycles[Len(cycles)]))

\* C19 amended: when no cycle is in flight, error is set if a fetch of the
\* most recently started cycle failed, and only then provided that cycle
\* overlapped no other.
C19_ErrorUnlessOverlap ==
    (cycles # <<>> /\ ~AnyInFlight) =>
        /\ FailedIn(cycles[Len(cycles)]) => error # Null
        /\ (error # Null /\ ~cycles[Len(cycles)].overlap)
              => FailedIn(cycles[Len(cycles)])

C19_Witness ==
    /\ Len(cycles) = 2
    /\ ~AnyInFlight
    /\ FailedIn(cycles[1]) /\ ~cycles[1].overlap
    /\ BothOk(cycles[2])
    /\ error = Null

\* Some cycle started after cycle i has already committed stats (readings).
LaterStats(i) == \E j \in CycleIds : j > i /\ cycles[j].sRes = "ok"
LaterReadings(i) == \E j \in CycleIds : j > i /\ cycles[j].rRes = "ok"

\* C20 as stated: no cycle commits a slice that a cycle started after it has
\* already committed.
C20_NeverBackwards ==
    [][\A i \in CycleIds :
         /\ StatsCommits(i) => ~LaterStats(i)
         /\ ReadingsCommits(i) => ~LaterReadings(i)]_vars

\* C20 amended: a slice holds the successful response that arrived last; it is
\* replaced by the response of an earlier-started cycle only when that cycle
\* overlapped a later one.
C20_ArrivalOrder ==
    [][\A i \in CycleIds :
         /\ StatsCommits(i) =>
              /\ stats' = cycles'[i].sData[1]
              /\ (LaterStats(i) => cycles[i].overlap)
         /\ ReadingsCommits(i) =>
              /\ readings' = cycles'[i].rData[1]
              /\ (LaterReadings(i) => cycles[i].overlap)]_vars

C20_Witness ==
    /\ Len(cycles) = 2
    /\ BothOk(cycles[1]) /\ BothOk(cycles[2])
    /\ cycles[1].overlap /\ cycles[2].overlap
    /\ stats = cycles[1].sData[1] /\ stats # cycles[2].sData[1]
    /\ readings = cycles[2].rData[1]

====
